---- MODULE Spec2Model ----
(***************************************************************************)
(* Model of the tork worker: Worker.handleTask / Worker.Start (package     *)
(* worker) and DockerRuntime.Run / DockerRuntime.Stop (package runtime).   *)
(* Every backend or broker call is one step whose outcome is chosen by the *)
(* environment; the lock d.mu and the table d.tasks are explicit.          *)
(***************************************************************************)
EXTENDS Integers, Sequences, FiniteSets, TLC

\* ------------------------------------------------------------------ bounds
MaxDeliveries == 2      \* deliveries of one task by the broker
MaxClock == 2           \* largest reading of the clock

\* --------------------------------------------------------------- constants
TaskIDs == {"t1", "t2"}             \* the task IDs callers of the runtime use
Queue == {"t1"}                     \* the tasks the broker delivers to the worker
Stoppers == {"op"}                  \* callers of Stop other than Run itself
Procs == TaskIDs \cup Stoppers      \* goroutines that can execute Stop

Scheduled == "SCHEDULED"
Running == "RUNNING"
Completed == "COMPLETED"
Failed == "FAILED"

QUEUE_STARTED == "started"
QUEUE_COMPLETED == "completed"
QUEUE_ERROR == "error"

Nil == "nil"                        \* the nil error
NoTime == -1                        \* a nil *time.Time
NoProc == "none"

\* errors the collaborators can return
PublishErr == "publish failed"
DaemonErr == "error response from daemon"
NoSuchContainer == "no such container"
CtxErr == "context canceled"

\* errors.Wrapf(err, msg): the message is prefixed to the cause
Wrapf(err, msg) == msg \o ": " \o err

\* errors.Errorf("can't start a task in %s state", t.State)
InvalidTaskState(st) == "can't start a task in " \o st \o " state"

\* resp.ID, the backend's identifier of the container created for task id
ContainerID(id) == "c-" \o id

VARIABLES
    task,           \* task[id]: the *task.Task handed to handleTask
    hpc,            \* hpc[id]: position of the handleTask call on task id
    hret,           \* hret[id]: what the last handleTask call returned
    deliveries,     \* deliveries[id]: handleTask calls made so far on task id
    trace,          \* trace[id]: calls made by handleTask to its collaborators
    now,            \* the clock read by time.Now()
    cancelled,      \* cancelled[id]: the ctx of the handleTask call is cancelled
    wpc,            \* position of Worker.Start
    quit,           \* signals buffered in the channel quit of Worker.Start (capacity 1)
    rpc,            \* rpc[id]: position of the Run call for task id
    tasks,          \* d.tasks: task ID -> container ID
    mu,             \* d.mu: [writer, readers]
    containers,     \* containers that exist in the backend
    removeCalls,    \* removeCalls[id]: ContainerRemove calls made for ContainerID(id)
    ops,            \* ops[id]: whether Run has inserted, a Stop has deleted the entry of id
    buf,            \* buf[id]: bytes captured by Run into its strings.Builder
    emitted,        \* emitted[id]: bytes the container of id wrote to stdout/stderr
    waitEvent,      \* waitEvent[id]: what the select of Run received
    runResult,      \* runResult[id]: the string returned by Run
    runErr,         \* runErr[id]: the error returned by Run
    stop,           \* stop[p]: the frame of the Stop call executed by p
    stoppedAfterRun \* stoppedAfterRun[id]: a Stop begun after Run returned has returned

workerVars == <<task, hpc, hret, deliveries, trace, now, cancelled, wpc, quit>>
runtimeVars == <<rpc, tasks, mu, containers, removeCalls, ops, buf, emitted, waitEvent, runResult, runErr, stop, stoppedAfterRun>>
vars == <<workerVars, runtimeVars>>

\* ------------------------------------------------------------ initial state
\* a task as the coordinator enqueues it: Scheduled, nothing recorded yet
NewTask ==
    [State |-> Scheduled, StartedAt |-> NoTime, CompletedAt |-> NoTime,
     FailedAt |-> NoTime, Result |-> 0, Error |-> ""]

NoStop == [pc |-> "idle", id |-> NoProc, containerID |-> "", ret |-> Nil, afterRun |-> FALSE]

Init ==
    /\ task = [id \in TaskIDs |-> NewTask]
    /\ hpc = [id \in TaskIDs |-> "idle"]
    /\ hret = [id \in TaskIDs |-> Nil]
    /\ deliveries = [id \in TaskIDs |-> 0]
    /\ trace = [id \in TaskIDs |-> <<>>]
    /\ now = 0
    /\ cancelled = [id \in TaskIDs |-> FALSE]
    /\ wpc = "init"
    /\ quit = 0
    /\ rpc = [id \in TaskIDs |-> "idle"]
    /\ tasks = [id \in {} |-> ""]
    /\ mu = [writer |-> NoProc, readers |-> {}]
    /\ containers = {}
    /\ removeCalls = [id \in TaskIDs |-> 0]
    /\ ops = [id \in TaskIDs |-> [inserted |-> FALSE, deleted |-> FALSE]]
    /\ buf = [id \in TaskIDs |-> 0]
    /\ emitted = [id \in TaskIDs |-> 0]
    /\ waitEvent = [id \in TaskIDs |-> "none"]
    /\ runResult = [id \in TaskIDs |-> 0]
    /\ runErr = [id \in TaskIDs |-> Nil]
    /\ stop = [p \in Procs |-> NoStop]
    /\ stoppedAfterRun = [id \in TaskIDs |-> FALSE]

\* ----------------------------------------------------------- environment
\* time.Now(): the clock never runs backwards; it need not have advanced
TimeNow == {n \in now..(now + 1) : n <= MaxClock}

\* broker.Publish either succeeds or fails
PublishOutcomes == {Nil, PublishErr}

\* a call made with ctx on behalf of task id: a cancelled ctx fails the call
CallOutcomes(id) == IF cancelled[id] THEN {CtxErr} ELSE {Nil, DaemonErr}

\* a call that addresses container c, made by p
ContainerCallOutcomes(p, c) ==
    IF p \in TaskIDs /\ cancelled[p] THEN {CtxErr}
    ELSE IF c \notin containers THEN {NoSuchContainer}
    ELSE {Nil, DaemonErr}

Event(op, arg, err, st) == [op |-> op, arg |-> arg, err |-> err, state |-> st]

\* Cancel(id): the caller of handleTask cancels ctx while the call is in progress
Cancel(id) ==
    /\ hpc[id] \notin {"idle", "panicked"}
    /\ ~cancelled[id]
    /\ cancelled' = [cancelled EXCEPT ![id] = TRUE]
    /\ UNCHANGED <<task, hpc, hret, deliveries, trace, now, wpc, quit, runtimeVars>>

\* ------------------------------------------------------- Worker.handleTask
\* mutants of the state check: a Failed (a Completed) task is run again
CanStart_AcceptsFailed(t) == t.State \in {Scheduled, Failed}

CanStart_AcceptsCompleted(t) == t.State \in {Scheduled, Completed}

\* t.State != task.Scheduled is refused
CanStart(t) == t.State = Scheduled

MarkRunning(t, started) == [t EXCEPT !.StartedAt = started, !.State = Running]

\* mutant: the error message is not recorded
MarkFailed_NoError(t, err, finished) ==
    [t EXCEPT !.State = Failed, !.FailedAt = finished]

MarkFailed(t, err, finished) ==
    [t EXCEPT !.State = Failed, !.Error = err, !.FailedAt = finished]

\* mutant: the output is not recorded
MarkCompleted_NoResult(t, result, finished) ==
    [t EXCEPT !.CompletedAt = finished, !.State = Completed]

MarkCompleted(t, result, finished) ==
    [t EXCEPT !.Result = result, !.CompletedAt = finished, !.State = Completed]

\* handleTask makes the calls `calls` and returns err
Returns(id, calls, err) ==
    /\ hret' = [hret EXCEPT ![id] = err]
    /\ hpc' = [hpc EXCEPT ![id] = "idle"]
    /\ trace' = [trace EXCEPT ![id] =
                    @ \o calls \o <<Event("handleTask", "return", err, task[id].State)>>]

\* the broker invokes the subscribed handler on task id
handleTask_Begin(id) ==
    /\ wpc \in {"waiting", "returned"}
    /\ hpc[id] = "idle"
    /\ deliveries[id] < MaxDeliveries
    /\ deliveries' = [deliveries EXCEPT ![id] = @ + 1]
    /\ IF ~CanStart(task[id])
       THEN /\ Returns(id, <<>>, InvalidTaskState(task[id].State))
            /\ UNCHANGED <<task, now>>
       ELSE /\ \E started \in TimeNow :
                 /\ now' = started
                 /\ task' = [task EXCEPT ![id] = MarkRunning(@, started)]
            /\ hpc' = [hpc EXCEPT ![id] = "PublishStarted"]
            /\ UNCHANGED <<hret, trace>>
    /\ UNCHANGED <<cancelled, wpc, quit, runtimeVars>>

\* mutant: the error of the started publish is ignored
handleTask_PublishStarted_IgnoresError(id) ==
    /\ hpc[id] = "PublishStarted"
    /\ \E err \in PublishOutcomes :
         /\ hpc' = [hpc EXCEPT ![id] = "Run"]
         /\ trace' = [trace EXCEPT ![id] =
                Append(@, Event("Publish", QUEUE_STARTED, err, task[id].State))]
         /\ UNCHANGED hret
    /\ UNCHANGED <<task, deliveries, now, cancelled, wpc, quit, runtimeVars>>

handleTask_PublishStarted(id) ==
    /\ hpc[id] = "PublishStarted"
    /\ \E err \in PublishOutcomes :
         IF err # Nil
         THEN Returns(id, <<Event("Publish", QUEUE_STARTED, err, task[id].State)>>, err)
         ELSE /\ hpc' = [hpc EXCEPT ![id] = "Run"]
              /\ trace' = [trace EXCEPT ![id] =
                     Append(@, Event("Publish", QUEUE_STARTED, err, task[id].State))]
              /\ UNCHANGED hret
    /\ UNCHANGED <<task, deliveries, now, cancelled, wpc, quit, runtimeVars>>

\* result, err := w.runtime.Run(ctx, t): the call
handleTask_Run(id) ==
    /\ hpc[id] = "Run"
    /\ rpc[id] = "idle"
    /\ rpc' = [rpc EXCEPT ![id] = "ImagePull"]
    /\ hpc' = [hpc EXCEPT ![id] = "InRun"]
    /\ trace' = [trace EXCEPT ![id] = Append(@, Event("Run", "call", Nil, task[id].State))]
    /\ UNCHANGED <<task, hret, deliveries, now, cancelled, wpc, quit>>
    /\ UNCHANGED <<tasks, mu, containers, removeCalls, ops, buf, emitted, waitEvent, runResult, runErr,
                   stop, stoppedAfterRun>>

\* Run has returned (result, err): lines after the call
handleTask_AfterRun(id) ==
    /\ hpc[id] = "InRun"
    /\ rpc[id] = "returned"
    /\ \E finished \in TimeNow :
         /\ now' = finished
         /\ IF runErr[id] # Nil
            THEN /\ task' = [task EXCEPT ![id] = MarkFailed(@, runErr[id], finished)]
                 /\ hpc' = [hpc EXCEPT ![id] = "PublishError"]
            ELSE /\ task' = [task EXCEPT ![id] = MarkCompleted(@, runResult[id], finished)]
                 /\ hpc' = [hpc EXCEPT ![id] = "PublishCompleted"]
    /\ trace' = [trace EXCEPT ![id] =
                    Append(@, Event("Run", "return", runErr[id], task[id].State))]
    /\ UNCHANGED <<hret, deliveries, cancelled, wpc, quit, runtimeVars>>

\* Run panicked: handleTask recovers nothing, the panic leaves it
handleTask_Panic(id) ==
    /\ hpc[id] = "InRun"
    /\ rpc[id] = "panicked"
    /\ hpc' = [hpc EXCEPT ![id] = "panicked"]
    /\ trace' = [trace EXCEPT ![id] = Append(@, Event("Run", "panic", Nil, task[id].State))]
    /\ UNCHANGED <<task, hret, deliveries, now, cancelled, wpc, quit, runtimeVars>>

\* mutant: no return after a successful error publish, the code for the
\* successful Run follows
handleTask_PublishError_FallsThrough(id) ==
    /\ hpc[id] = "PublishError"
    /\ \E err \in PublishOutcomes :
         IF err # Nil
         THEN Returns(id, <<Event("Publish", QUEUE_ERROR, err, task[id].State)>>, err)
         ELSE /\ hpc' = [hpc EXCEPT ![id] = "PublishCompleted"]
              /\ trace' = [trace EXCEPT ![id] =
                     Append(@, Event("Publish", QUEUE_ERROR, err, task[id].State))]
              /\ UNCHANGED hret
    /\ UNCHANGED <<task, deliveries, now, cancelled, wpc, quit, runtimeVars>>

handleTask_PublishError(id) ==
    /\ hpc[id] = "PublishError"
    /\ \E err \in PublishOutcomes :
         Returns(id, <<Event("Publish", QUEUE_ERROR, err, task[id].State)>>,
                 IF err # Nil THEN err ELSE Nil)
    /\ UNCHANGED <<task, deliveries, now, cancelled, wpc, quit, runtimeVars>>

\* mutant: the error of the completed publish is dropped
handleTask_PublishCompleted_SwallowsError(id) ==
    /\ hpc[id] = "PublishCompleted"
    /\ \E err \in PublishOutcomes :
         Returns(id, <<Event("Publish", QUEUE_COMPLETED, err, task[id].State)>>, Nil)
    /\ UNCHANGED <<task, deliveries, now, cancelled, wpc, quit, runtimeVars>>

handleTask_PublishCompleted(id) ==
    /\ hpc[id] = "PublishCompleted"
    /\ \E err \in PublishOutcomes :
         Returns(id, <<Event("Publish", QUEUE_COMPLETED, err, task[id].State)>>, err)
    /\ UNCHANGED <<task, deliveries, now, cancelled, wpc, quit, runtimeVars>>

\* ------------------------------------------------------------ Worker.Start
Start_Subscribe ==
    /\ wpc = "init"
    /\ \E err \in {Nil, "subscribe failed"} :
         wpc' = IF err # Nil THEN "subscribeFailed" ELSE "waiting"
    /\ UNCHANGED <<task, hpc, hret, deliveries, trace, now, cancelled, quit, runtimeVars>>

\* quit := make(chan os.Signal, 1)
QuitCapacity == 1

\* an interrupt or termination signal reaches the process after
\* signal.Notify(quit, ...): it is put into quit unless quit is full
Signal ==
    /\ wpc = "waiting"
    /\ quit < QuitCapacity
    /\ quit' = quit + 1
    /\ UNCHANGED <<task, hpc, hret, deliveries, trace, now, cancelled, wpc, runtimeVars>>

\* mutant: Start returns only when no handleTask call is in progress
Start_Signal_Drains ==
    /\ wpc = "waiting"
    /\ quit > 0
    /\ \A id \in TaskIDs : hpc[id] \in {"idle", "panicked"}
    /\ quit' = quit - 1
    /\ wpc' = "returned"
    /\ UNCHANGED <<task, hpc, hret, deliveries, trace, now, cancelled, runtimeVars>>

\* <-quit; return nil
Start_Signal ==
    /\ wpc = "waiting"
    /\ quit > 0
    /\ quit' = quit - 1
    /\ wpc' = "returned"
    /\ UNCHANGED <<task, hpc, hret, deliveries, trace, now, cancelled, runtimeVars>>

\* -------------------------------------------------------- DockerRuntime.Run
\* the bytes a container writes, as the payload sizes of the frames of the
\* multiplexed stdout/stderr stream
Workloads == {<<3>>, <<600, 600>>, <<1016>>, <<1017>>}

\* &io.LimitedReader{R: out, N: 1024}
LogLimit == 1024

\* size of the header stdcopy expects before each frame
StdWriterPrefixLen == 8

\* the bytes of payload in frames
RECURSIVE Sum(_)
Sum(frames) == IF frames = <<>> THEN 0 ELSE Head(frames) + Sum(Tail(frames))

\* mutant: the stream is read without the LimitedReader
StdCopy_Unlimited(frames, limit) == Sum(frames)

\* stdcopy.StdCopy(buf, buf, lr): frames are copied while header and payload
\* lie wholly inside the first `limit` bytes of the stream; a frame cut short
\* by the end of the stream is dropped
RECURSIVE StdCopy(_, _)
StdCopy(frames, limit) ==
    IF frames = <<>> \/ StdWriterPrefixLen + Head(frames) > limit
    THEN 0
    ELSE Head(frames) + StdCopy(Tail(frames), limit - StdWriterPrefixLen - Head(frames))

\* return result, err from Run
RunReturns(id, result, err) ==
    /\ runResult' = [runResult EXCEPT ![id] = result]
    /\ runErr' = [runErr EXCEPT ![id] = err]
    /\ rpc' = [rpc EXCEPT ![id] = "returned"]

\* Run proceeds to its next statement
RunGoes(id, pc) ==
    /\ rpc' = [rpc EXCEPT ![id] = pc]
    /\ UNCHANGED <<runResult, runErr>>

\* d.client.ImagePull and io.Copy of its response
Run_ImagePull(id) ==
    /\ rpc[id] = "ImagePull"
    /\ \E err \in CallOutcomes(id) :
         IF err # Nil
         THEN RunReturns(id, 0, err)
         ELSE RunGoes(id, "ContainerCreate")
    /\ UNCHANGED <<workerVars, tasks, mu, containers, removeCalls, ops, buf, emitted, waitEvent,
                   stop, stoppedAfterRun>>

Run_ContainerCreate(id) ==
    /\ rpc[id] = "ContainerCreate"
    /\ \E err \in CallOutcomes(id) :
         IF err # Nil
         THEN /\ RunReturns(id, 0, err)
              /\ UNCHANGED containers
         ELSE /\ containers' = containers \cup {ContainerID(id)}
              /\ RunGoes(id, "Lock")
    /\ UNCHANGED <<workerVars, tasks, mu, removeCalls, ops, buf, emitted, waitEvent, stop, stoppedAfterRun>>

\* d.mu.Lock()
Run_Lock(id) ==
    /\ rpc[id] = "Lock"
    /\ mu.writer = NoProc /\ mu.readers = {}
    /\ mu' = [mu EXCEPT !.writer = id]
    /\ RunGoes(id, "Insert")
    /\ UNCHANGED <<workerVars, tasks, containers, removeCalls, ops, buf, emitted, waitEvent, stop, stoppedAfterRun>>

\* mutant: the table is replaced by one that holds the new entry only
Insert_ReplacesTable(m, id, c) == [k \in {id} |-> c]

\* d.tasks[t.ID] = resp.ID
Insert(m, id, c) == [k \in DOMAIN m \cup {id} |-> IF k = id THEN c ELSE m[k]]

\* mutant: the entry is not deleted
Delete_NoOp(m, id) == m

\* delete(d.tasks, t.ID)
Delete(m, id) == [k \in DOMAIN m \ {id} |-> m[k]]

\* d.tasks[t.ID] = resp.ID; d.mu.Unlock()
Run_Insert(id) ==
    /\ rpc[id] = "Insert"
    /\ tasks' = Insert(tasks, id, ContainerID(id))
    /\ ops' = [ops EXCEPT ![id].inserted = TRUE]
    /\ mu' = [mu EXCEPT !.writer = NoProc]
    /\ RunGoes(id, "ContainerStart")
    /\ UNCHANGED <<workerVars, containers, removeCalls, buf, emitted, waitEvent, stop, stoppedAfterRun>>

\* mutant: a failed start drops the tracking entry before Run returns
Run_ContainerStart_DropsEntry(id) ==
    /\ rpc[id] = "ContainerStart"
    /\ \E err \in ContainerCallOutcomes(id, ContainerID(id)) :
         IF err # Nil
         THEN /\ RunReturns(id, 0, Wrapf(err, "error starting container"))
              /\ tasks' = Delete(tasks, id)
         ELSE /\ RunGoes(id, "ContainerLogs")
              /\ UNCHANGED tasks
    /\ UNCHANGED <<workerVars, mu, containers, removeCalls, ops, buf, emitted, waitEvent, stop, stoppedAfterRun>>

Run_ContainerStart(id) ==
    /\ rpc[id] = "ContainerStart"
    /\ \E err \in ContainerCallOutcomes(id, ContainerID(id)) :
         IF err # Nil
         THEN RunReturns(id, 0, Wrapf(err, "error starting container"))
         ELSE RunGoes(id, "ContainerLogs")
    /\ UNCHANGED <<workerVars, tasks, mu, containers, removeCalls, ops, buf, emitted, waitEvent, stop, stoppedAfterRun>>

\* out, err := d.client.ContainerLogs(...); the deferred out.Close() is
\* registered before err is looked at, and out is nil when err is not: on
\* that return the deferred call dereferences nil and Run panics
Run_ContainerLogs(id) ==
    /\ rpc[id] = "ContainerLogs"
    /\ \E err \in ContainerCallOutcomes(id, ContainerID(id)) :
         IF err # Nil
         THEN /\ rpc' = [rpc EXCEPT ![id] = "panicked"]
              /\ UNCHANGED <<runResult, runErr>>
         ELSE RunGoes(id, "StdCopy")
    /\ UNCHANGED <<workerVars, tasks, mu, containers, removeCalls, ops, buf, emitted, waitEvent, stop, stoppedAfterRun>>

\* _, err = stdcopy.StdCopy(buf, buf, lr)
Run_StdCopy(id) ==
    /\ rpc[id] = "StdCopy"
    /\ \E err \in CallOutcomes(id) :
         IF err # Nil
         THEN /\ RunReturns(id, 0, Wrapf(err, "error reading the std out"))
              /\ UNCHANGED <<buf, emitted>>
         ELSE \E frames \in Workloads :
                /\ buf' = [buf EXCEPT ![id] = StdCopy(frames, LogLimit)]
                /\ emitted' = [emitted EXCEPT ![id] = Sum(frames)]
                /\ RunGoes(id, "ContainerWait")
    /\ UNCHANGED <<workerVars, tasks, mu, containers, removeCalls, ops, waitEvent, stop, stoppedAfterRun>>

\* the exit codes a container ends with
StatusCodes == {0, 1}

\* mutant: a non-zero status code is turned into an error of Run
Run_ContainerWait_FailsOnNonZero(id) ==
    /\ rpc[id] = "ContainerWait"
    /\ \E err \in ContainerCallOutcomes(id, ContainerID(id)) :
         IF err # Nil
         THEN /\ waitEvent' = [waitEvent EXCEPT ![id] = "err"]
              /\ RunReturns(id, 0, err)
              /\ UNCHANGED stop
         ELSE \E code \in StatusCodes :
                /\ waitEvent' = [waitEvent EXCEPT ![id] = IF code = 0 THEN "status 0" ELSE "status 1"]
                /\ IF code = 0
                   THEN /\ stop' = [stop EXCEPT ![id] = [NoStop EXCEPT !.pc = "RLock", !.id = id]]
                        /\ RunGoes(id, "Stop")
                   ELSE /\ RunReturns(id, 0, "exit status 1")
                        /\ UNCHANGED stop
    /\ UNCHANGED <<workerVars, tasks, mu, containers, removeCalls, ops, buf, emitted, stoppedAfterRun>>

\* select over errCh and statusCh of ContainerWait; after a status event Run
\* goes on to d.Stop(ctx, t)
Run_ContainerWait(id) ==
    /\ rpc[id] = "ContainerWait"
    /\ \E err \in ContainerCallOutcomes(id, ContainerID(id)) :
         IF err # Nil
         THEN /\ waitEvent' = [waitEvent EXCEPT ![id] = "err"]
              /\ RunReturns(id, 0, err)
              /\ UNCHANGED stop
         ELSE \E code \in StatusCodes :
                /\ waitEvent' = [waitEvent EXCEPT ![id] = IF code = 0 THEN "status 0" ELSE "status 1"]
                /\ stop' = [stop EXCEPT ![id] = [NoStop EXCEPT !.pc = "RLock", !.id = id]]
                /\ RunGoes(id, "Stop")
    /\ UNCHANGED <<workerVars, tasks, mu, containers, removeCalls, ops, buf, emitted, stoppedAfterRun>>

\* mutant: the error of d.Stop is returned by Run
Run_Return_PropagatesStopError(id) ==
    /\ rpc[id] = "Stop"
    /\ stop[id].pc = "returned"
    /\ RunReturns(id, IF stop[id].ret = Nil THEN buf[id] ELSE 0, stop[id].ret)
    /\ UNCHANGED <<workerVars, tasks, mu, containers, removeCalls, ops, buf, emitted, waitEvent,
                   stop, stoppedAfterRun>>

\* d.Stop has returned: its error is logged only; return buf.String(), nil
Run_Return(id) ==
    /\ rpc[id] = "Stop"
    /\ stop[id].pc = "returned"
    /\ RunReturns(id, buf[id], Nil)
    /\ UNCHANGED <<workerVars, tasks, mu, containers, removeCalls, ops, buf, emitted, waitEvent, stop,
                   stoppedAfterRun>>

\* ------------------------------------------------------- DockerRuntime.Stop
\* Run has returned to handleTask for task id
RunCompleted(id) == rpc[id] = "returned"

\* a caller other than Run calls d.Stop(ctx, t) for task id
Stop_Call(p, id) ==
    /\ p \in Stoppers
    /\ stop[p].pc \in {"idle", "returned"}
    /\ stop' = [stop EXCEPT ![p] =
                   [NoStop EXCEPT !.pc = "RLock", !.id = id, !.afterRun = RunCompleted(id)]]
    /\ UNCHANGED <<workerVars, rpc, tasks, mu, containers, removeCalls, ops, buf, emitted, waitEvent,
                   runResult, runErr, stoppedAfterRun>>

\* return err from Stop
StopReturns(p, err) ==
    /\ stop' = [stop EXCEPT ![p].pc = "returned", ![p].ret = err]
    /\ stoppedAfterRun' =
          IF stop[p].afterRun
          THEN [stoppedAfterRun EXCEPT ![stop[p].id] = TRUE]
          ELSE stoppedAfterRun

\* d.mu.RLock()
Stop_RLock(p) ==
    /\ stop[p].pc = "RLock"
    /\ mu.writer = NoProc
    /\ mu' = [mu EXCEPT !.readers = @ \cup {p}]
    /\ stop' = [stop EXCEPT ![p].pc = "Lookup"]
    /\ UNCHANGED <<workerVars, rpc, tasks, containers, removeCalls, ops, buf, emitted, waitEvent,
                   runResult, runErr, stoppedAfterRun>>

\* containerID, ok := d.tasks[t.ID]; d.mu.RUnlock(); if !ok { return nil }
Stop_Lookup(p) ==
    /\ stop[p].pc = "Lookup"
    /\ mu' = [mu EXCEPT !.readers = @ \ {p}]
    /\ IF stop[p].id \in DOMAIN tasks
       THEN /\ stop' = [stop EXCEPT ![p].pc = "Lock",
                                    ![p].containerID = tasks[stop[p].id]]
            /\ UNCHANGED stoppedAfterRun
       ELSE StopReturns(p, Nil)
    /\ UNCHANGED <<workerVars, rpc, tasks, containers, removeCalls, ops, buf, emitted, waitEvent,
                   runResult, runErr>>

\* d.mu.Lock()
Stop_Lock(p) ==
    /\ stop[p].pc = "Lock"
    /\ mu.writer = NoProc /\ mu.readers = {}
    /\ mu' = [mu EXCEPT !.writer = p]
    /\ stop' = [stop EXCEPT ![p].pc = "Delete"]
    /\ UNCHANGED <<workerVars, rpc, tasks, containers, removeCalls, ops, buf, emitted, waitEvent,
                   runResult, runErr, stoppedAfterRun>>

\* mutant: d.mu.Unlock() is missing after the delete
Stop_Delete_KeepsLock(p) ==
    /\ stop[p].pc = "Delete"
    /\ tasks' = Delete(tasks, stop[p].id)
    /\ ops' = [ops EXCEPT ![stop[p].id].deleted = TRUE]
    /\ stop' = [stop EXCEPT ![p].pc = "ContainerRemove"]
    /\ UNCHANGED <<workerVars, rpc, mu, containers, removeCalls, buf, emitted, waitEvent,
                   runResult, runErr, stoppedAfterRun>>

\* delete(d.tasks, t.ID); d.mu.Unlock()
Stop_Delete(p) ==
    /\ stop[p].pc = "Delete"
    /\ tasks' = Delete(tasks, stop[p].id)
    /\ ops' = [ops EXCEPT ![stop[p].id].deleted = TRUE]
    /\ mu' = [mu EXCEPT !.writer = NoProc]
    /\ stop' = [stop EXCEPT ![p].pc = "ContainerRemove"]
    /\ UNCHANGED <<workerVars, rpc, containers, removeCalls, buf, emitted, waitEvent,
                   runResult, runErr, stoppedAfterRun>>

\* the task whose container has the identifier c
TaskOf(c) == CHOOSE id \in TaskIDs : ContainerID(id) = c

\* mutant: when the remove fails the tracking entry is put back
Stop_ContainerRemove_RestoresEntry(p) ==
    /\ stop[p].pc = "ContainerRemove"
    /\ removeCalls' = [removeCalls EXCEPT ![TaskOf(stop[p].containerID)] = @ + 1]
    /\ \E err \in ContainerCallOutcomes(p, stop[p].containerID) :
         /\ containers' = IF err = Nil THEN containers \ {stop[p].containerID} ELSE containers
         /\ tasks' = IF err = Nil THEN tasks ELSE Insert(tasks, stop[p].id, stop[p].containerID)
         /\ StopReturns(p, err)
    /\ UNCHANGED <<workerVars, rpc, mu, ops, buf, emitted, waitEvent, runResult, runErr>>

\* return d.client.ContainerRemove(ctx, containerID, ...{Force: true})
Stop_ContainerRemove(p) ==
    /\ stop[p].pc = "ContainerRemove"
    /\ removeCalls' = [removeCalls EXCEPT ![TaskOf(stop[p].containerID)] = @ + 1]
    /\ \E err \in ContainerCallOutcomes(p, stop[p].containerID) :
         /\ containers' = IF err = Nil THEN containers \ {stop[p].containerID} ELSE containers
         /\ StopReturns(p, err)
    /\ UNCHANGED <<workerVars, rpc, tasks, mu, ops, buf, emitted, waitEvent, runResult, runErr>>

\* -------------------------------------------------------------------- Next
Next ==
    \/ Start_Subscribe
    \/ Signal
    \/ Start_Signal
    \/ \E id \in Queue : Cancel(id)
    \/ \E id \in Queue : handleTask_Begin(id)
    \/ \E id \in Queue : handleTask_PublishStarted(id)
    \/ \E id \in Queue : handleTask_Run(id)
    \/ \E id \in Queue : handleTask_AfterRun(id)
    \/ \E id \in Queue : handleTask_Panic(id)
    \/ \E id \in Queue : handleTask_PublishError(id)
    \/ \E id \in Queue : handleTask_PublishCompleted(id)
    \/ \E id \in TaskIDs : Run_ImagePull(id)
    \/ \E id \in TaskIDs : Run_ContainerCreate(id)
    \/ \E id \in TaskIDs : Run_Lock(id)
    \/ \E id \in TaskIDs : Run_Insert(id)
    \/ \E id \in TaskIDs : Run_ContainerStart(id)
    \/ \E id \in TaskIDs : Run_ContainerLogs(id)
    \/ \E id \in TaskIDs : Run_StdCopy(id)
    \/ \E id \in TaskIDs : Run_ContainerWait(id)
    \/ \E id \in TaskIDs : Run_Return(id)
    \/ \E p \in Stoppers, id \in TaskIDs : Stop_Call(p, id)
    \/ \E p \in Procs : Stop_RLock(p)
    \/ \E p \in Procs : Stop_Lookup(p)
    \/ \E p \in Procs : Stop_Lock(p)
    \/ \E p \in Procs : Stop_Delete(p)
    \/ \E p \in Procs : Stop_ContainerRemove(p)

Spec == Init /\ [][Next]_vars

\* ---------------------------------------- the runtime used without a worker
\* a caller other than handleTask calls d.Run(ctx, t) for task id
Run_Call(id) ==
    /\ rpc[id] = "idle"
    /\ hpc[id] = "idle"
    /\ rpc' = [rpc EXCEPT ![id] = "ImagePull"]
    /\ UNCHANGED <<workerVars, tasks, mu, containers, removeCalls, ops, buf, emitted, waitEvent,
                   runResult, runErr, stop, stoppedAfterRun>>

\* concurrent Run and Stop calls on one DockerRuntime, one Run per task ID
NextRuntime ==
    \/ \E id \in TaskIDs : Run_Call(id)
    \/ \E id \in TaskIDs : Run_ImagePull(id)
    \/ \E id \in TaskIDs : Run_ContainerCreate(id)
    \/ \E id \in TaskIDs : Run_Lock(id)
    \/ \E id \in TaskIDs : Run_Insert(id)
    \/ \E id \in TaskIDs : Run_ContainerStart(id)
    \/ \E id \in TaskIDs : Run_ContainerLogs(id)
    \/ \E id \in TaskIDs : Run_StdCopy(id)
    \/ \E id \in TaskIDs : Run_ContainerWait(id)
    \/ \E id \in TaskIDs : Run_Return(id)
    \/ \E p \in Stoppers, id \in TaskIDs : Stop_Call(p, id)
    \/ \E p \in Procs : Stop_RLock(p)
    \/ \E p \in Procs : Stop_Lookup(p)
    \/ \E p \in Procs : Stop_Lock(p)
    \/ \E p \in Procs : Stop_Delete(p)
    \/ \E p \in Procs : Stop_ContainerRemove(p)

SpecRuntime == Init /\ [][NextRuntime]_vars

\* ------------------------------------------------------ reading the trace
Indices(id, op, arg) ==
    {i \in DOMAIN trace[id] : trace[id][i].op = op /\ trace[id][i].arg = arg}

Count(id, op, arg) == Cardinality(Indices(id, op, arg))

Publishes(id, queue) == Count(id, "Publish", queue)

TerminalPublishes(id) == Publishes(id, QUEUE_COMPLETED) + Publishes(id, QUEUE_ERROR)

RunCalls(id) == Count(id, "Run", "call")

\* the publish to the started queue was made and failed
StartedPublishFailed(id) ==
    \E i \in Indices(id, "Publish", QUEUE_STARTED) : trace[id][i].err # Nil

\* Run returned to handleTask without / with an error
RunSucceeded(id) == \E i \in Indices(id, "Run", "return") : trace[id][i].err = Nil
RunFailed(id) == \E i \in Indices(id, "Run", "return") : trace[id][i].err # Nil

\* no handleTask call on id is in progress and at least one was made
Handled(id) == hpc[id] = "idle" /\ deliveries[id] > 0

\* what the first handleTask call on id returned (the first call finds the
\* task Scheduled and is the one that runs it)
FirstReturn(id) ==
    LET r == Indices(id, "handleTask", "return")
    IN  trace[id][CHOOSE i \in r : \A j \in r : i <= j].err

\* ------------------------------------------------------------------ claims
\* C1: a handleTask call on a task whose State is not Scheduled returns the
\* InvalidTaskState error, makes no Runtime.Run call and no Publish, and
\* leaves the task (State, timestamps, Result, Error) as it was.
C1_RefusedCallHasNoEffect ==
    [][\A id \in Queue :
          (deliveries'[id] = deliveries[id] + 1 /\ task[id].State # Scheduled)
          => /\ hret'[id] = InvalidTaskState(task[id].State)
             /\ hret'[id] # Nil
             /\ hpc'[id] = "idle"
             /\ task'[id] = task[id]
             /\ trace'[id] = Append(trace[id],
                    Event("handleTask", "return", hret'[id], task[id].State))
             /\ UNCHANGED runtimeVars]_vars

\* a call on a Failed task has been refused
C1_Witness ==
    \E id \in Queue :
       /\ Handled(id) /\ deliveries[id] = 2
       /\ hret[id] = InvalidTaskState(Failed)
       /\ task[id].State = Failed

\* C2: the publish to the started queue precedes the call of Runtime.Run,
\* every terminal publish follows Run's return, there is never more than one
\* terminal publish, and once handleTask has returned after Run returned
\* there is exactly one.
C2_StartedBeforeRunOneTerminalAfter ==
    \A id \in Queue :
       /\ \A i \in Indices(id, "Run", "call") :
             \E j \in Indices(id, "Publish", QUEUE_STARTED) : j < i /\ trace[id][j].err = Nil
       /\ \A i \in Indices(id, "Publish", QUEUE_COMPLETED) \cup Indices(id, "Publish", QUEUE_ERROR) :
             \E j \in Indices(id, "Run", "return") : j < i
       /\ TerminalPublishes(id) <= 1
       /\ (Handled(id) /\ (RunSucceeded(id) \/ RunFailed(id))) => TerminalPublishes(id) = 1

\* a call has run the task and published to the error queue
C2_Witness ==
    \E id \in Queue :
       /\ Handled(id) /\ RunFailed(id)
       /\ Publishes(id, QUEUE_STARTED) = 1
       /\ Publishes(id, QUEUE_ERROR) = 1

\* C3: when the publish to the started queue fails, handleTask returns that
\* publish error, Runtime.Run is not invoked and nothing is published to the
\* completed or error queue.
C3_StartedPublishFailureAborts ==
    \A id \in Queue :
       StartedPublishFailed(id)
       => /\ Len(trace[id]) >= 2
          /\ trace[id][1].op = "Publish" /\ trace[id][1].arg = QUEUE_STARTED
          /\ trace[id][2].op = "handleTask" /\ trace[id][2].arg = "return"
          /\ trace[id][2].err = trace[id][1].err
          /\ FirstReturn(id) = PublishErr
          /\ RunCalls(id) = 0
          /\ rpc[id] = "idle"
          /\ TerminalPublishes(id) = 0

\* the started publish failed and the task was delivered once more
C3_Witness ==
    \E id \in Queue : StartedPublishFailed(id) /\ Handled(id) /\ deliveries[id] = 2

\* the snapshots handleTask published for id to queue
Snapshots(id, queue) == {trace[id][i].state : i \in Indices(id, "Publish", queue)}

\* what a handleTask call in which Run returned without error leaves behind,
\* apart from the order of StartedAt and CompletedAt
CompletedOutcome(id) ==
    /\ task[id].State = Completed
    /\ Snapshots(id, QUEUE_STARTED) = {Running}
    /\ Snapshots(id, QUEUE_COMPLETED) = {Completed}
    /\ task[id].StartedAt # NoTime /\ task[id].CompletedAt # NoTime
    /\ task[id].Result = runResult[id]
    /\ Publishes(id, QUEUE_COMPLETED) = 1
    /\ Publishes(id, QUEUE_ERROR) = 0

\* C4 as stated: after a handleTask call in which Run returned without error
\* the task is Completed (having been published as Running), Result is Run's
\* output, one publish went to the completed queue and none to the error
\* queue, and StartedAt is strictly earlier than CompletedAt.
C4_AsStated ==
    \A id \in Queue :
       (Handled(id) /\ RunSucceeded(id))
       => CompletedOutcome(id) /\ task[id].StartedAt < task[id].CompletedAt

\* C4 (amended): the same, with StartedAt not later than CompletedAt: the two
\* readings of the clock can be equal.
C4_SuccessfulRunCompletes ==
    \A id \in Queue :
       (Handled(id) /\ RunSucceeded(id))
       => CompletedOutcome(id) /\ task[id].StartedAt <= task[id].CompletedAt

\* a successful call whose output is not empty has returned
C4_Witness ==
    \E id \in Queue :
       /\ Handled(id) /\ RunSucceeded(id)
       /\ task[id].Result > 0
       /\ task[id].StartedAt < task[id].CompletedAt

\* C5: after a handleTask call in which Run returned an error the task is
\* Failed (having been published as Running), Error is Run's error message
\* and is not empty, FailedAt is set, one publish went to the error queue and
\* none to the completed queue, and the call returned no error if that
\* publish succeeded.
C5_FailedRunIsReported ==
    \A id \in Queue :
       (Handled(id) /\ RunFailed(id))
       => /\ task[id].State = Failed
          /\ Snapshots(id, QUEUE_STARTED) = {Running}
          /\ Snapshots(id, QUEUE_ERROR) = {Failed}
          /\ task[id].Error # "" /\ task[id].Error = runErr[id]
          /\ task[id].FailedAt # NoTime /\ task[id].StartedAt <= task[id].FailedAt
          /\ Publishes(id, QUEUE_ERROR) = 1
          /\ Publishes(id, QUEUE_COMPLETED) = 0
          /\ \A i \in Indices(id, "Publish", QUEUE_ERROR) :
                trace[id][i].err = Nil => FirstReturn(id) = Nil

\* a failing call whose error publish succeeded has returned
C5_Witness ==
    \E id \in Queue :
       /\ Handled(id) /\ RunFailed(id)
       /\ \E i \in Indices(id, "Publish", QUEUE_ERROR) : trace[id][i].err = Nil
       /\ FirstReturn(id) = Nil

\* the state changes handleTask may make
LegalTransitions == {<<Scheduled, Running>>, <<Running, Completed>>, <<Running, Failed>>}

\* C6: over any sequence of handleTask calls on a task the State only moves
\* Scheduled -> Running, Running -> Completed or Running -> Failed; a
\* timestamp that is set is never changed, and a newly set one is not earlier
\* than those already set; CompletedAt and FailedAt are never both set.
C6_LifecycleIsMonotone ==
    /\ [](\A id \in Queue : task[id].CompletedAt = NoTime \/ task[id].FailedAt = NoTime)
    /\ [][\A id \in Queue :
            /\ task'[id].State # task[id].State
               => <<task[id].State, task'[id].State>> \in LegalTransitions
            /\ \A f \in {"StartedAt", "CompletedAt", "FailedAt"} :
                  /\ task[id][f] # NoTime => task'[id][f] = task[id][f]
                  /\ task'[id][f] # task[id][f] =>
                        \A g \in {"StartedAt", "CompletedAt", "FailedAt"} :
                           task[id][g] <= task'[id][f]]_vars

\* a Completed task has been delivered again
C6_Witness ==
    \E id \in Queue :
       /\ Handled(id) /\ deliveries[id] = 2
       /\ task[id].State = Completed /\ task[id].CompletedAt # NoTime

\* the errors with which Run gives up on a cancelled ctx once the container exists
CancellationErrors ==
    {Wrapf(CtxErr, "error starting container"), Wrapf(CtxErr, "error reading the std out"), CtxErr}

\* C7: a failure of image pull, create, start, log capture or wait never
\* crashes the handler: Run returns it as an error, and handleTask ends with
\* the task Failed, Error populated, one publish to the error queue and, when
\* that publish succeeds, no error returned.
C7_RunFailuresNeverCrashHandler ==
    \A id \in Queue :
       /\ rpc[id] # "panicked" /\ hpc[id] # "panicked"
       /\ (Handled(id) /\ RunFailed(id))
          => /\ task[id].State = Failed /\ task[id].Error # ""
             /\ Publishes(id, QUEUE_ERROR) = 1
             /\ \A i \in Indices(id, "Publish", QUEUE_ERROR) :
                   trace[id][i].err = Nil => FirstReturn(id) = Nil

\* C8: when Run has left its wait step and returned, it has made its cleanup
\* call of Stop, whether the wait ended with a status event or with an error.
C8_CleanupAfterEveryWait ==
    \A id \in TaskIDs :
       (rpc[id] = "returned" /\ waitEvent[id] # "none") => stop[id].pc = "returned"

\* C9: when Run returns because ctx was cancelled during start, log read or
\* wait, the container it created no longer exists in the backend and the
\* table holds no entry for the task.
C9_CancelledRunLeaksNothing ==
    \A id \in TaskIDs :
       (rpc[id] = "returned" /\ cancelled[id] /\ runErr[id] \in CancellationErrors
           /\ waitEvent[id] \in {"none", "err"})
       => (ContainerID(id) \notin containers /\ id \notin DOMAIN tasks)

\* C10: a Stop call that finds no entry for its task ID returns nil without
\* a ContainerRemove call or any other change of the runtime; and once a Stop
\* that was called after Run returned has itself returned, the table holds no
\* entry for that task ID.
C10_StopIsIdempotentAndClearsEntry ==
    /\ [](\A id \in TaskIDs : stoppedAfterRun[id] => id \notin DOMAIN tasks)
    /\ [][\A p \in Procs :
            (stop[p].pc = "Lookup" /\ stop'[p] # stop[p] /\ stop[p].id \notin DOMAIN tasks)
            => /\ stop'[p].pc = "returned" /\ stop'[p].ret = Nil
               /\ UNCHANGED <<tasks, containers, removeCalls>>]_vars

\* Run failed leaving its entry behind, a later Stop removed the container,
\* and one more Stop on the now untracked ID has returned
C10_Witness ==
    \E id \in TaskIDs, p \in Stoppers :
       /\ rpc[id] = "returned" /\ runErr[id] # Nil
       /\ stoppedAfterRun[id] /\ removeCalls[id] = 1
       /\ stop[p].pc = "returned" /\ stop[p].id = id /\ stop[p].containerID = ""

\* C11: under any interleaving of concurrent Run and Stop calls the table
\* holds an entry for a task ID exactly when the Run of that ID has inserted
\* it and no Stop for that ID has deleted it, and the entry is the container
\* created for that ID: an operation on another ID neither removes nor
\* alters it.
C11_TableTracksInsertsAndDeletes ==
    \A id \in TaskIDs :
       /\ (id \in DOMAIN tasks) <=> (ops[id].inserted /\ ~ops[id].deleted)
       /\ id \in DOMAIN tasks => tasks[id] = ContainerID(id)

\* both Runs have inserted, the entry of t2 has been deleted while the Run of
\* t1 is still in progress and its entry is in the table
C11_Witness ==
    /\ ops["t1"].inserted /\ ops["t2"].inserted
    /\ ops["t2"].deleted /\ "t2" \notin DOMAIN tasks
    /\ "t1" \in DOMAIN tasks /\ rpc["t1"] \in {"ContainerStart", "ContainerLogs", "StdCopy", "ContainerWait"}

\* the publishes handleTask made for id to the completed or error queue
TerminalIndices(id) ==
    Indices(id, "Publish", QUEUE_COMPLETED) \cup Indices(id, "Publish", QUEUE_ERROR)

\* C12: handleTask retries nothing: Run is called at most once, each of the
\* started, completed and error queues gets at most one Publish call, and a
\* failure of the terminal publish is what handleTask returns.
C12_NoRetriesAndPublishErrorsPropagate ==
    \A id \in Queue :
       /\ RunCalls(id) <= 1
       /\ \A q \in {QUEUE_STARTED, QUEUE_COMPLETED, QUEUE_ERROR} : Publishes(id, q) <= 1
       /\ \A i \in TerminalIndices(id) :
             (trace[id][i].err # Nil /\ Len(trace[id]) > i)
             => /\ trace[id][i + 1].op = "handleTask" /\ trace[id][i + 1].arg = "return"
                /\ trace[id][i + 1].err = trace[id][i].err
                /\ FirstReturn(id) = trace[id][i].err

\* the completed publish failed, handleTask returned its error, and the task
\* was delivered once more
C12_Witness ==
    \E id \in Queue :
       /\ Handled(id) /\ deliveries[id] = 2
       /\ \E i \in Indices(id, "Publish", QUEUE_COMPLETED) : trace[id][i].err = PublishErr
       /\ FirstReturn(id) = PublishErr
       /\ RunCalls(id) = 1

WaitStatuses == {"status 0", "status 1"}

\* C13: when the wait ended with a status event Run returns the captured
\* output and no error, whether its cleanup Stop returned an error or not.
C13_CleanupFailureIsNotReturned ==
    \A id \in TaskIDs :
       (rpc[id] = "returned" /\ waitEvent[id] \in WaitStatuses)
       => /\ stop[id].pc = "returned"
          /\ runErr[id] = Nil
          /\ runResult[id] = buf[id]

\* Run returned its output although ContainerRemove failed in the cleanup
C13_Witness ==
    \E id \in TaskIDs :
       /\ rpc[id] = "returned" /\ waitEvent[id] \in WaitStatuses
       /\ stop[id].ret = DaemonErr /\ removeCalls[id] = 1
       /\ runErr[id] = Nil /\ runResult[id] > 0

\* C14: what Run captures and returns, and what handleTask stores as Result,
\* never exceeds 1024 bytes; when the container wrote more, the rest is
\* dropped and the log read is not what makes Run fail.
C14_CapturedOutputIsBounded ==
    \A id \in TaskIDs :
       /\ buf[id] <= LogLimit /\ buf[id] <= emitted[id]
       /\ runResult[id] <= LogLimit
       /\ task[id].Result <= LogLimit
       /\ emitted[id] > LogLimit
          => /\ rpc[id] \in {"ContainerWait", "Stop", "returned"}
             /\ runErr[id] \notin {Wrapf(CtxErr, "error reading the std out"),
                                   Wrapf(DaemonErr, "error reading the std out")}
             /\ (rpc[id] = "returned" /\ waitEvent[id] \in WaitStatuses) => runErr[id] = Nil

\* a container wrote 1200 bytes in two frames; the first frame was captured
\* and the task completed with it
C14_Witness ==
    \E id \in Queue :
       /\ Handled(id) /\ emitted[id] > LogLimit
       /\ task[id].State = Completed /\ task[id].Result = 600

\* p holds d.mu
Holds(p) == mu.writer = p \/ p \in mu.readers

\* p is about to make, or is inside, a call to the backend
InBackendCall(p) ==
    \/ p \in TaskIDs /\ rpc[p] \in {"ImagePull", "ContainerCreate", "ContainerStart",
                                    "ContainerLogs", "StdCopy", "ContainerWait"}
    \/ stop[p].pc = "ContainerRemove"

\* C15: d.tasks is read only with the read lock held and changed only with
\* the write lock held, a writer holds d.mu alone, and no Run or Stop holds
\* d.mu while it is in a backend call.
C15_LockDiscipline ==
    /\ [](/\ mu.writer # NoProc => mu.readers = {}
          /\ \A id \in TaskIDs : rpc[id] = "Insert" => mu.writer = id
          /\ \A p \in Procs : stop[p].pc = "Delete" => mu.writer = p
          /\ \A p \in Procs : stop[p].pc = "Lookup" => p \in mu.readers
          /\ \A p \in Procs : InBackendCall(p) => ~Holds(p))
    /\ [][tasks' # tasks => (mu.writer # NoProc /\ mu'.writer = NoProc)]_vars

\* t1 holds the write lock for its insert while t2 is in ContainerWait and
\* the external caller of Stop has finished its lookup
C15_Witness ==
    /\ mu.writer = "t1" /\ rpc["t1"] = "Insert"
    /\ rpc["t2"] = "ContainerWait"
    /\ \E p \in Stoppers : stop[p].pc = "Lock"

\* the errors Run returns when ContainerStart fails
StartErrors ==
    {Wrapf(err, "error starting container") : err \in {DaemonErr, CtxErr, NoSuchContainer}}

\* Run for id returned because starting the container failed
StartFailed(id) == rpc[id] = "returned" /\ runErr[id] \in StartErrors

\* C16: when ContainerStart fails Run returns the wrapped error without
\* calling Stop, so the entry it inserted stays in d.tasks until some Stop
\* deletes it; a Stop called after that Run returned which finds the entry
\* and whose remove succeeds leaves neither the entry nor the container.
C16_StartFailureLeavesEntry ==
    \A id \in TaskIDs :
       StartFailed(id)
       => /\ stop[id].pc = "idle"
          /\ ops[id].inserted
          /\ ~ops[id].deleted
             => /\ id \in DOMAIN tasks /\ tasks[id] = ContainerID(id)
                /\ removeCalls[id] = 0
          /\ \A p \in Stoppers :
                (stop[p].id = id /\ stop[p].afterRun /\ stop[p].pc = "returned")
                => /\ stop[p].containerID = "" => ops[id].deleted
                   /\ (stop[p].containerID # "" /\ stop[p].ret = Nil)
                      => (id \notin DOMAIN tasks /\ ContainerID(id) \notin containers)

\* the start of t1 failed, and a Stop called afterwards found the entry and
\* removed the container
C16_Witness ==
    /\ StartFailed("t1") /\ runErr["t1"] = Wrapf(DaemonErr, "error starting container")
    /\ \E p \in Stoppers :
          /\ stop[p].id = "t1" /\ stop[p].afterRun /\ stop[p].pc = "returned"
          /\ stop[p].containerID = ContainerID("t1") /\ stop[p].ret = Nil
    /\ removeCalls["t1"] = 1 /\ ContainerID("t1") \notin containers

\* the errors ContainerWait can deliver on its error channel
WaitErrors == {DaemonErr, CtxErr, NoSuchContainer}

\* C17: an error from the wait is returned by Run as it is; a status event
\* gives a Run without error whatever the status code, and the handler then
\* marks the task Completed.
C17_WaitOutcomeDecidesRun ==
    \A id \in TaskIDs :
       /\ (waitEvent[id] = "err")
          => (rpc[id] = "returned" /\ runErr[id] \in WaitErrors /\ runResult[id] = 0)
       /\ (waitEvent[id] \in WaitStatuses /\ rpc[id] = "returned")
          => /\ runErr[id] = Nil
             /\ hpc[id] \notin {"idle", "InRun"} \/ Handled(id)
                => (task[id].State = Completed /\ task[id].Error = "")

\* the workload ended with status code 1 and the task is Completed
C17_Witness ==
    \E id \in Queue :
       /\ waitEvent[id] = "status 1" /\ Handled(id)
       /\ runErr[id] = Nil /\ task[id].State = Completed

\* C18: once subscribed, Start returns only by taking a signal from quit,
\* and a delivered signal lets it return at once whatever the handlers are
\* doing; the return itself touches no task.
C18_StartReturnsOnSignalOnly ==
    /\ []((wpc = "waiting" /\ quit > 0) => ENABLED Start_Signal)
    /\ [][(wpc = "waiting" /\ wpc' # "waiting")
          => (wpc' = "returned" /\ quit > 0 /\ quit' = quit - 1
              /\ UNCHANGED <<task, hpc, trace, rpc>>)]_vars

\* Start has returned while t1 is inside Run, Running, with no terminal
\* notification published
C18_Witness ==
    /\ wpc = "returned"
    /\ hpc["t1"] = "InRun" /\ rpc["t1"] = "ContainerWait"
    /\ task["t1"].State = Running
    /\ TerminalPublishes("t1") = 0

\* C19: ContainerRemove is called at most once for the container of each
\* task, however Stop calls for that task interleave.
C19_RemoveAtMostOncePerHandle ==
    \A id \in TaskIDs : removeCalls[id] <= 1

\* C20: a Stop that found the entry has deleted it before it calls
\* ContainerRemove and the entry is not back when it returns, with or without
\* an error; a Stop whose lookup misses returns nil and makes no backend call
\* even though the container still exists.
C20_StopForgetsBeforeRemove ==
    /\ [](/\ \A p \in Procs :
               (stop[p].pc \in {"ContainerRemove", "returned"} /\ stop[p].containerID # "")
               => stop[p].id \notin DOMAIN tasks
          /\ \A id \in TaskIDs : ops[id].deleted => id \notin DOMAIN tasks)
    /\ [][\A p \in Procs :
            (stop[p].pc = "Lookup" /\ stop[p].id \notin DOMAIN tasks /\ stop'[p].pc # "Lookup")
            => /\ stop'[p].pc = "returned" /\ stop'[p].ret = Nil
               /\ UNCHANGED <<tasks, containers, removeCalls>>]_vars

\* the remove of Run's cleanup failed; a Stop called after Run returned
\* found no entry and returned nil, and the container still exists
C20_Witness ==
    /\ rpc["t1"] = "returned" /\ stop["t1"].pc = "returned" /\ stop["t1"].ret = DaemonErr
    /\ \E p \in Stoppers :
          /\ stop[p].id = "t1" /\ stop[p].afterRun /\ stop[p].pc = "returned"
          /\ stop[p].containerID = "" /\ stop[p].ret = Nil
    /\ removeCalls["t1"] = 1
    /\ ContainerID("t1") \in containers /\ "t1" \notin DOMAIN tasks
====
